---------------------------- MODULE Spec2Model ----------------------------
(***************************************************************************)
(* A model of paket-core/util: the string based fixed-point conversions of *)
(* util/conversion.py, the older stellar_units module and the              *)
(* sql_connection context manager of util/db.py.                           *)
(*                                                                         *)
(* Python values are records [t, v, e]:                                    *)
(*   t = "int"      v = the decimal digits (most significant first, no     *)
(*                  leading zero, zero is <<0>>): Python's unbounded int   *)
(*   t = "bool"     v = <<1>> (True) or <<0>> (False): bool is an int      *)
(*                  subclass and multiplies as 1 or 0                      *)
(*   t = "str"      v = the characters, as code points ("0" is 48)         *)
(*   t = "float"    the IEEE-754 double v * 2^e, v a digit sequence        *)
(*   t = "NoneType" None                                                   *)
(* A call ends in a record [kind, val, exc]: a returned value or a raised  *)
(* exception.                                                              *)
(***************************************************************************)
EXTENDS Integers, Sequences, FiniteSets, TLC

VARIABLES fn, arg_amount, arg_decimals, arg_price, numeric_representation,
          ret, price_decimals, chain,
          db_pc, connection, events, tables, rows, error

conv_vars == <<fn, arg_amount, arg_decimals, arg_price, numeric_representation,
               ret, price_decimals, chain>>
db_vars == <<db_pc, connection, events, tables, rows, error>>
vars == <<fn, arg_amount, arg_decimals, arg_price, numeric_representation,
          ret, price_decimals, chain,
          db_pc, connection, events, tables, rows, error>>

(***************************************************************************)
(* Bounds of the explored inputs.                                          *)
(***************************************************************************)
MaxDecimals == 3
MaxAmount == 120
MaxIntLen == 2
MaxFracLen == 3
MaxPrefix == 15
MaxRun == 15
NumTables == 3

(***************************************************************************)
(* Program constants.                                                      *)
(***************************************************************************)
ETH_DECIMALS == 18
BTC_DECIMALS == 8
STELLAR_DECIMALS == 7
DECIMAL_POINT == 46
Ord0 == 48
DEC == 7

Min(a, b) == IF a < b THEN a ELSE b
Max(a, b) == IF a > b THEN a ELSE b

(***************************************************************************)
(* Python str: sequences of code points.                                   *)
(***************************************************************************)
Repeat(c, n) == [i \in 1..Max(n, 0) |-> c]

IsDigitChar(c) == c >= Ord0 /\ c <= Ord0 + 9

AllDigits(s) == \A i \in 1..Len(s) : IsDigitChar(s[i])

\* x in s
Contains(s, c) == \E i \in 1..Len(s) : s[i] = c

\* A slice bound i of a sequence of length n, the way Python normalises it:
\* a negative bound counts from the end, and the result is clipped to 0..n.
\* -0 is 0: it does not count from the end.
SliceIndex(n, i) == IF i < 0 THEN Max(n + i, 0) ELSE Min(i, n)

\* s[:i]
SliceTo(s, i) == SubSeq(s, 1, SliceIndex(Len(s), i))

\* s[i:]
SliceFrom(s, i) == SubSeq(s, SliceIndex(Len(s), i) + 1, Len(s))

\* s.lstrip(c)
LStrip(s, c) ==
    IF \A i \in 1..Len(s) : s[i] = c THEN <<>>
    ELSE SubSeq(s, CHOOSE i \in 1..Len(s) : s[i] # c /\ \A j \in 1..(i - 1) : s[j] = c, Len(s))

\* s.rstrip(c)
RStrip(s, c) ==
    IF \A i \in 1..Len(s) : s[i] = c THEN <<>>
    ELSE SubSeq(s, 1, CHOOSE i \in 1..Len(s) : s[i] # c /\ \A j \in (i + 1)..Len(s) : s[j] = c)

\* s.split(sep): the list of the pieces between the separators
Split(s, sep) ==
    LET seps == {i \in 1..Len(s) : s[i] = sep}
        \* the k-th separator's position; 0 before the first piece, Len(s) + 1
        \* after the last
        Cut(k) == IF k = 0 THEN 0
                  ELSE IF k > Cardinality(seps) THEN Len(s) + 1
                  ELSE CHOOSE i \in seps : Cardinality({j \in seps : j < i}) = k - 1
    IN [k \in 1..Cardinality(seps) + 1 |-> SubSeq(s, Cut(k - 1) + 1, Cut(k) - 1)]

\* format(s, "<0w") and format(s, "0<w"): s padded on the right with "0" to
\* width w; a longer s is kept whole
PadRight(s, w) == s \o Repeat(Ord0, w - Len(s))

\* format(s, "0>w"): s padded on the left with "0" to width w
PadLeft(s, w) == Repeat(Ord0, w - Len(s)) \o s

(***************************************************************************)
(* Python int: unbounded, as decimal digit sequences.  The arithmetic is   *)
(* done on limbs of four digits (base 10000), most significant first.      *)
(* An intermediate value is handed on as an operator's argument, which TLC *)
(* evaluates once.                                                         *)
(***************************************************************************)
Zero == <<0>>
One == <<1>>

\* y, with x evaluated first: the steps of a computation are then evaluated
\* in their order, not each inside the one that needs it
After(x, y) == IF x = x THEN y ELSE y

\* z, with x and y evaluated first
After2(x, y, z) == IF x = x /\ y = y THEN z ELSE z

\* ds without its leading zeros (at least one digit is kept)
Strip(ds) ==
    After(ds,
    IF \A i \in 1..Len(ds) : ds[i] = 0 THEN Zero
    ELSE SubSeq(ds, CHOOSE i \in 1..Len(ds) : ds[i] # 0 /\ \A j \in 1..(i - 1) : ds[j] = 0,
                Len(ds)))

RECURSIVE DigitsOf(_)
DigitsOf(n) == IF n < 10 THEN <<n>> ELSE Append(DigitsOf(n \div 10), n % 10)

RECURSIVE NatOf(_)
NatOf(ds) == IF ds = <<>> THEN 0
             ELSE 10 * NatOf(SubSeq(ds, 1, Len(ds) - 1)) + ds[Len(ds)]

ZeroPad(ds, n) == [i \in 1..Max(n - Len(ds), 0) |-> 0] \o ds

\* the limbs of a digit sequence whose length is a multiple of four
LimbsOf(p) ==
    [i \in 1..(Len(p) \div 4) |->
        1000 * p[4 * i - 3] + 100 * p[4 * i - 2] + 10 * p[4 * i - 1] + p[4 * i]]

\* the number of limbs of ds
LimbCount(ds) == (Len(ds) + 3) \div 4

ToLimbs(ds) == LimbsOf(ZeroPad(ds, 4 * LimbCount(ds)))

FromLimbs(ls) ==
    After(ls, Strip([i \in 1..(4 * Len(ls)) |->
              (ls[((i - 1) \div 4) + 1] \div (10 ^ (3 - ((i - 1) % 4)))) % 10]))

\* -1, 0, 1 as x < y, x = y, x > y, for sequences of one length
CmpPadded(x, y) ==
    IF x = y THEN 0
    ELSE IF \E i \in 1..Len(x) : x[i] < y[i] /\ \A j \in 1..(i - 1) : x[j] = y[j] THEN -1
    ELSE 1

\* -1, 0, 1 as a < b, a = b, a > b
BigCmp(a, b) ==
    After2(a, b, CmpPadded(ZeroPad(a, Max(Len(a), Len(b))),
                           ZeroPad(b, Max(Len(a), Len(b)))))

BigLe(a, b) == BigCmp(a, b) <= 0
BigLt(a, b) == BigCmp(a, b) < 0

\* The limbs of the number whose i-th column holds cols[i] <= 19998: a
\* column passes a carry on when it holds 10000 or more, or holds 9999 and
\* receives one.
Carried(cols) ==
    After(cols,
    LET carry(i) == \E j \in (i + 1)..Len(cols) :
                        /\ cols[j] >= 10000
                        /\ \A k \in (i + 1)..(j - 1) : cols[k] = 9999
    IN [i \in 1..(Len(cols) + 1) |->
           IF i = 1 THEN (IF carry(0) THEN 1 ELSE 0)
           ELSE (cols[i - 1] + (IF carry(i - 1) THEN 1 ELSE 0)) % 10000])

AddLimbs(x, y) == FromLimbs(Carried([i \in 1..Len(x) |-> x[i] + y[i]]))

\* int.__add__
BigAdd(a, b) ==
    After2(a, b, AddLimbs(ZeroPad(ToLimbs(a), Max(LimbCount(a), LimbCount(b))),
                          ZeroPad(ToLimbs(b), Max(LimbCount(a), LimbCount(b)))))

\* The limbs of the number whose i-th column holds cols[i] in -9999..9999,
\* the number being >= 0: a column borrows when it is negative, or is 0 and
\* is borrowed from.
Borrowed(cols) ==
    After(cols,
    LET borrow(i) == \E j \in (i + 1)..Len(cols) :
                         /\ cols[j] < 0
                         /\ \A k \in (i + 1)..(j - 1) : cols[k] = 0
    IN [i \in 1..Len(cols) |-> (cols[i] - (IF borrow(i) THEN 1 ELSE 0) + 10000) % 10000])

SubLimbs(x, y) == FromLimbs(Borrowed([i \in 1..Len(x) |-> x[i] - y[i]]))

\* a - b for a >= b
BigSub(a, b) ==
    After2(a, b, SubLimbs(ZeroPad(ToLimbs(a), Max(LimbCount(a), LimbCount(b))),
                          ZeroPad(ToLimbs(b), Max(LimbCount(a), LimbCount(b)))))

\* a * 10^n
Shift10(a, n) == IF a = Zero THEN Zero ELSE a \o [i \in 1..n |-> 0]

Pow10(n) == Shift10(One, n)

\* the sum of x[i] * y[k + 1 - i] over the limbs i = lo..hi of x
RECURSIVE ColumnSum(_, _, _, _, _)
ColumnSum(x, y, k, lo, hi) ==
    IF lo > hi THEN 0
    ELSE IF lo = hi THEN x[lo] * y[k + 1 - lo]
    ELSE ColumnSum(x, y, k, lo, (lo + hi) \div 2)
         + ColumnSum(x, y, k, ((lo + hi) \div 2) + 1, hi)

\* column k sums the limb products of weight 10000^(Len(x) + Len(y) - 1 - k)
Columns(x, y) ==
    [k \in 1..(Len(x) + Len(y) - 1) |->
        ColumnSum(x, y, k, Max(1, k + 1 - Len(y)), Min(k, Len(x)))]

\* c[i], 0 outside of c
At(c, i) == IF i \in DOMAIN c THEN c[i] ELSE 0

\* Each column sum is split over its own column and the two above it, and
\* what a column then holds over 9999 is moved up once more.
Spread(c) ==
    LET split(i) == (At(c, i - 2) % 10000) + ((At(c, i - 1) \div 10000) % 10000)
                    + (At(c, i) \div 100000000)
    IN After(c, [i \in 1..(Len(c) + 2) |-> (split(i) % 10000) + (split(i + 1) \div 10000)])

\* the schoolbook product; the last carries are those of an addition
MulLimbs(x, y) == FromLimbs(Carried(Spread(Columns(x, y))))

\* int.__mul__
BigMul(a, b) == After2(a, b, MulLimbs(ToLimbs(a), ToLimbs(b)))

\* a * k for a small k >= 0
MulSmall(a, k) == BigMul(a, DigitsOf(k))

\* the largest k in 0..9 with b * k <= r
QuotDigit(r, b) == CHOOSE k \in 0..9 :
    /\ BigLe(MulSmall(b, k), r)
    /\ (k = 9 \/ ~BigLe(MulSmall(b, k + 1), r))

\* the quotient q with the digit k appended, and what is left of r
DivDigit(q, r, b, k) == [q |-> Strip(Append(q, k)), r |-> BigSub(r, MulSmall(b, k))]

\* one step of the long division by b > 0: the next digit of the dividend
\* is taken down
DivStep(prev, digit, b) ==
    IF prev.r = Zero /\ digit = 0 THEN [q |-> Strip(Append(prev.q, 0)), r |-> Zero]
    ELSE DivDigit(prev.q, Strip(Append(prev.r, digit)), b,
                  QuotDigit(Strip(Append(prev.r, digit)), b))

\* the long division's steps for the digits lo..hi of a, from prev
RECURSIVE DivFold(_, _, _, _, _)
DivFold(prev, a, b, lo, hi) ==
    After(prev,
          IF lo = hi THEN DivStep(prev, a[lo], b)
          ELSE DivFold(DivFold(prev, a, b, lo, (lo + hi) \div 2),
                       a, b, ((lo + hi) \div 2) + 1, hi))

\* divmod(a, b) for b > 0: [q, r] with a = q * b + r and 0 <= r < b
BigDivMod(a, b) == DivFold([q |-> Zero, r |-> Zero], a, b, 1, Len(a))

\* divmod(a, 10^n): the digits of a but the last n, and the last n
SplitPow10(a, n) ==
    IF Len(a) <= n THEN [q |-> Zero, r |-> a]
    ELSE [q |-> SubSeq(a, 1, Len(a) - n), r |-> Strip(SubSeq(a, Len(a) - n + 1, Len(a)))]

IsOdd(a) == a[Len(a)] % 2 = 1

\* h * h, and once more by k when odd
SquareTimes(h, odd, k) ==
    After(h, IF odd THEN MulSmall(BigMul(h, h), k) ELSE BigMul(h, h))

\* k^n for a small k, by squaring
RECURSIVE PowRec(_, _)
PowRec(k, n) ==
    IF n = 0 THEN One
    ELSE IF n = 1 THEN DigitsOf(k)
    ELSE SquareTimes(PowRec(k, n \div 2), n % 2 = 1, k)

\* the powers the doubles explored need, computed once
Pow2Table == [n \in 0..256 |-> PowRec(2, n)]
Pow5Table == [n \in 0..64 |-> PowRec(5, n)]

Pow2(n) == Pow2Table[n]
Pow5(n) == Pow5Table[n]

(***************************************************************************)
(* Python values and call results.                                         *)
(***************************************************************************)
PyInt(ds) == [t |-> "int", v |-> ds, e |-> 0]
PyStr(s) == [t |-> "str", v |-> s, e |-> 0]
PyBool(b) == [t |-> "bool", v |-> IF b THEN One ELSE Zero, e |-> 0]
PyFloat(m, x) == [t |-> "float", v |-> m, e |-> x]
None == [t |-> "NoneType", v |-> <<>>, e |-> 0]

\* how a call stands: not run yet, returned x, or raised x
Pending == [kind |-> "pending", val |-> None, exc |-> "none"]
Return(x) == [kind |-> "return", val |-> x, exc |-> "none"]
Raise(x) == [kind |-> "raise", val |-> None, exc |-> x]

\* a local that was never bound, an argument the function does not take
Unbound == 0 - 1

\* isinstance(amount, str) or (isinstance(amount, int) and not isinstance(amount, bool))
IsStrOrInt(x) == x.t = "str" \/ x.t = "int"

\* str(x) of a str or an int
StrOf(x) == IF x.t = "str" THEN x.v ELSE [i \in 1..Len(x.v) |-> x.v[i] + Ord0]

\* int(s) of a str: the digits' value, or ValueError
IntOf(s) ==
    IF s = <<>> \/ ~AllDigits(s) THEN Raise("ValueError")
    ELSE Return(PyInt(Strip([i \in 1..Len(s) |-> s[i] - Ord0])))

(***************************************************************************)
(* util/conversion.py                                                      *)
(***************************************************************************)
\* fractional_part as it is, without the truncation
KeepFraction(fractional_part, decimals) == fractional_part

\* fractional_part[:decimals]
TruncateFraction(fractional_part, decimals) == SliceTo(fractional_part, decimals)

divisible_to_indivisible(amount, decimals) ==
    IF ~IsStrOrInt(amount) THEN Raise("TypeError")
    ELSE
      LET s == StrOf(amount)
          dotted == Contains(s, DECIMAL_POINT)
          parts == Split(s, DECIMAL_POINT)
      IN
        IF dotted /\ Len(parts) # 2 THEN Raise("ValueError")
        ELSE
          LET integer_part == IF dotted THEN parts[1] ELSE s
              fractional_part == IF dotted THEN TruncateFraction(parts[2], decimals)
                                 ELSE Repeat(Ord0, decimals)
              striped == LStrip(fractional_part, Ord0)
              leading_zeros_amount == Len(fractional_part) - Len(striped)
              trailing_zeros_amount == decimals - leading_zeros_amount - Len(striped)
              text == IF integer_part # <<Ord0>>
                      THEN integer_part \o PadRight(fractional_part, decimals)
                      ELSE striped \o Repeat(Ord0, trailing_zeros_amount)
          IN IntOf(IF text = <<>> THEN <<Ord0>> ELSE text)

\* "{}.{}".format(amount[:-decimals], amount[-decimals:]) if len(amount) > decimals
\* else "0.{amount:0>{decimals}}"
InsertPoint(s, decimals) ==
    IF Len(s) > decimals
    THEN SliceTo(s, 0 - decimals) \o <<DECIMAL_POINT>> \o SliceFrom(s, 0 - decimals)
    ELSE <<Ord0, DECIMAL_POINT>> \o PadLeft(s, decimals)

indivisible_to_divisible(amount, decimals) ==
    IF ~IsStrOrInt(amount) THEN Raise("TypeError")
    ELSE
      LET parts == Split(InsertPoint(StrOf(amount), decimals), DECIMAL_POINT)
      IN
        IF Len(parts) # 2 THEN Raise("ValueError")
        ELSE
          LET integer_part == parts[1]
              striped == RStrip(parts[2], Ord0)
          IN Return(PyStr(integer_part \o <<DECIMAL_POINT>>
                          \o (IF striped = <<>> THEN <<Ord0>> ELSE striped)))

stroops_to_units(amount) == indivisible_to_divisible(amount, STELLAR_DECIMALS)
units_to_stroops(amount) == divisible_to_indivisible(amount, STELLAR_DECIMALS)
wei_to_eth(amount) == indivisible_to_divisible(amount, ETH_DECIMALS)
eth_to_wei(amount) == divisible_to_indivisible(amount, ETH_DECIMALS)
satoshi_to_btc(amount) == indivisible_to_divisible(amount, BTC_DECIMALS)
btc_to_satoshi(amount) == divisible_to_indivisible(amount, BTC_DECIMALS)

(***************************************************************************)
(* Python float: IEEE-754 doubles, as v * 2^e with v an integer of at most *)
(* MantissaBits bits.  The inputs explored stay within the normal range.   *)
(***************************************************************************)
MantissaBits == 53

\* q, or q + 1 when twice the remainder compares with the divisor as
\* twice: above it, or equal to it with q odd
RoundQuotient(q, twice) ==
    IF twice > 0 \/ (twice = 0 /\ IsOdd(q)) THEN BigAdd(q, One) ELSE q

\* a / 10^n rounded to the nearest integer, a tie to the even one
RoundShift(a, n) ==
    After(a, RoundQuotient(SplitPow10(a, n).q,
                           BigCmp(BigAdd(SplitPow10(a, n).r, SplitPow10(a, n).r), Pow10(n))))

\* p / (10^s * 2^j) rounded to the nearest integer, a tie to the even one:
\* p / 2^j is p * 5^j / 10^j
DivHalfEven(p, s, j) == RoundShift(BigMul(p, Pow5(j)), s + j)

\* whether 2^b <= p / 10^s < 2^(b+1)
HasBinaryExponent(p, s, b) ==
    IF b >= 0
    THEN /\ BigLe(Shift10(Pow2(b), s), p)
         /\ BigLt(p, Shift10(Pow2(b + 1), s))
    ELSE /\ BigLe(Pow10(s), BigMul(p, Pow2(0 - b)))
         /\ BigLt(BigMul(p, Pow2(0 - b - 1)), Pow10(s))

\* the binary exponent of p / 10^s, a value between 10^n and 10^(n+1): it
\* lies between n * log2(10) and (n + 1) * log2(10), and
\* 3.321 < log2(10) < 3.322 bounds the search
ExponentNear(p, s, n) ==
    CHOOSE b \in ((IF n >= 0 THEN (n * 3321) \div 1000
                   ELSE 0 - (((0 - n) * 3322) \div 1000)) - 1)
                 ..((IF n + 1 >= 0 THEN ((n + 1) * 3322) \div 1000
                     ELSE 0 - (((0 - n - 1) * 3321) \div 1000)) + 1) :
        HasBinaryExponent(p, s, b)

\* floor(log2(p / 10^s)) for p > 0
BinaryExponent(p, s) == ExponentNear(p, s, Len(p) - s - 1)

\* the double m * 2^x; a mantissa rounded up to 2^MantissaBits is
\* 2^(MantissaBits-1) with the next exponent
Normalised(m, x) ==
    IF m = Pow2(MantissaBits) THEN PyFloat(Pow2(MantissaBits - 1), x + 1)
    ELSE PyFloat(m, x)

\* the double nearest to p / 10^s with the exponent x of its last mantissa bit
DoubleAt(p, s, x) ==
    IF x <= 0 THEN Normalised(DivHalfEven(BigMul(p, Pow2(0 - x)), s, 0), x)
    ELSE Normalised(DivHalfEven(p, s, x), x)

\* the double nearest to p / 10^s (p >= 0), a tie to the even mantissa
NearestDouble(p, s) ==
    IF p = Zero THEN PyFloat(Zero, 0)
    ELSE DoubleAt(p, s, BinaryExponent(p, s) - (MantissaBits - 1))

\* float() of the digits before and after the decimal point
FloatOfParts(whole, fraction) ==
    IF whole \o fraction = <<>> \/ ~AllDigits(whole \o fraction) THEN Raise("ValueError")
    ELSE Return(NearestDouble(
             Strip([i \in 1..Len(whole \o fraction) |-> (whole \o fraction)[i] - Ord0]),
             Len(fraction)))

\* float(s) of a str of digits with at most one decimal point
FloatOfSplit(parts) ==
    IF Len(parts) > 2 THEN Raise("ValueError")
    ELSE IF Len(parts) = 2 THEN FloatOfParts(parts[1], parts[2])
    ELSE FloatOfParts(parts[1], <<>>)

FloatOf(s) == FloatOfSplit(Split(s, DECIMAL_POINT))

\* round(x) of a float: the nearest int, a tie to the even one.  A mantissa
\* is below 2^MantissaBits, so x < 1/2 when its exponent is below -MantissaBits.
Round(x) ==
    IF x.e >= 0 THEN PyInt(BigMul(x.v, Pow2(x.e)))
    ELSE IF x.e < 0 - MantissaBits THEN PyInt(Zero)
    ELSE PyInt(DivHalfEven(x.v, 0, 0 - x.e))

\* round(f) of the result of a call to float()
RoundOf(f) == IF f.kind = "raise" THEN f ELSE Return(Round(f.val))

\* x * y for an int x: an int for an int or a bool, TypeError for None.  For
\* a float y the product is a float, and its type alone is looked at
\* afterwards.  A str y (sequence repetition) is not among the amounts explored.
Mul(x, y) ==
    CASE y.t \in {"int", "bool"} -> Return(PyInt(BigMul(x.v, y.v)))
      [] y.t = "float" -> Return(PyFloat(BigMul(x.v, y.v), y.e))
      [] y.t = "NoneType" -> Raise("TypeError")

\* x // y that raises when the division leaves a remainder
ExactDiv(x, y) ==
    IF y.v = Zero THEN Raise("ZeroDivisionError")
    ELSE IF BigDivMod(x.v, y.v).r # Zero THEN Raise("ArithmeticError")
    ELSE Return(PyInt(BigDivMod(x.v, y.v).q))

\* x // y of two non-negative ints
FloorDiv(x, y) ==
    IF y.v = Zero THEN Raise("ZeroDivisionError")
    ELSE Return(PyInt(BigDivMod(x.v, y.v).q))

(***************************************************************************)
(* util/conversion.py: conversions to and from euro cents.  The calls to   *)
(* LOGGER.warning change nothing that a caller reads and are left out.     *)
(***************************************************************************)
\* len(price.split('.')[1]), with 0 for a price without a decimal point
FractionLenOrZero(price) ==
    IF Len(Split(price.v, DECIMAL_POINT)) < 2 THEN Return(0)
    ELSE Return(Len(Split(price.v, DECIMAL_POINT)[2]))

\* len(price.split('.')[1])
FractionLen(price) ==
    LET parts == Split(price.v, DECIMAL_POINT)
    IN IF Len(parts) < 2 THEN Raise("IndexError") ELSE Return(Len(parts[2]))

\* try: len(price.split('.')[1]) / except IndexError: 0
GuardedFractionLen(price) ==
    LET r == FractionLen(price)
    IN IF r.kind = "raise" /\ r.exc = "IndexError" THEN 0 ELSE r.val

\* price_decimals + decimals: the shift that leaves the result in euros
EuroShift(eur_price_decimals, decimals) == eur_price_decimals + decimals

\* price_decimals + decimals - 2: the price is in euros, the result in cents
CentsShift(eur_price_decimals, decimals) == eur_price_decimals + decimals - 2

currency_to_euro_cents(amount, eur_price, decimals) ==
    LET eur_price_decimals == FractionLen(eur_price)
        fictitious_units_price == divisible_to_indivisible(eur_price, eur_price_decimals.val)
        fictitious_units_amount == Mul(fictitious_units_price.val, amount)
        euro_cents == indivisible_to_divisible(fictitious_units_amount.val,
                                               CentsShift(eur_price_decimals.val, decimals))
    IN IF eur_price_decimals.kind = "raise" THEN eur_price_decimals
       ELSE IF fictitious_units_price.kind = "raise" THEN fictitious_units_price
       ELSE IF fictitious_units_amount.kind = "raise" THEN fictitious_units_amount
       ELSE IF euro_cents.kind = "raise" THEN euro_cents
       ELSE RoundOf(FloatOf(euro_cents.val.v))

btc_to_euro_cents(amount, eur_price) == currency_to_euro_cents(amount, eur_price, BTC_DECIMALS)
eth_to_euro_cents(amount, eur_price) == currency_to_euro_cents(amount, eur_price, ETH_DECIMALS)
xlm_to_euro_cents(amount, eur_price) == currency_to_euro_cents(amount, eur_price, STELLAR_DECIMALS)
bul_to_euro_cents(amount, eur_price) == currency_to_euro_cents(amount, eur_price, STELLAR_DECIMALS)

euro_cents_to_xlm_stroops(euro_cents_amount, xlm_price) ==
    LET xlm_price_decimals == GuardedFractionLen(xlm_price)
        fictitious_units_amount ==
            divisible_to_indivisible(euro_cents_amount, STELLAR_DECIMALS + xlm_price_decimals)
        fictitious_units_price == divisible_to_indivisible(xlm_price, xlm_price_decimals + 2)
    IN IF fictitious_units_amount.kind = "raise" THEN fictitious_units_amount
       ELSE IF fictitious_units_price.kind = "raise" THEN fictitious_units_price
       ELSE FloorDiv(fictitious_units_amount.val, fictitious_units_price.val)

euro_cents_to_bul_stroops(euro_cents_amount, bul_price) ==
    LET bul_price_decimals == GuardedFractionLen(bul_price)
        fictitious_units_amount ==
            divisible_to_indivisible(euro_cents_amount, STELLAR_DECIMALS + bul_price_decimals)
        fictitious_units_price == divisible_to_indivisible(bul_price, bul_price_decimals + 2)
    IN IF fictitious_units_amount.kind = "raise" THEN fictitious_units_amount
       ELSE IF fictitious_units_price.kind = "raise" THEN fictitious_units_price
       ELSE FloorDiv(fictitious_units_amount.val, fictitious_units_price.val)

(***************************************************************************)
(* util/stellar_units.py.  units_to_stroops also takes a float, whose      *)
(* str() is not modelled: the amounts explored are str, int, bool, None.   *)
(***************************************************************************)
stellar_units_stroops_to_units(amount, numeric) ==
    IF amount.t # "int" THEN Raise("TypeError")
    ELSE
      LET padded == PadLeft(StrOf(amount), DEC)
          text == IF Len(padded) = DEC THEN <<Ord0, DECIMAL_POINT>> \o padded
                  ELSE SliceTo(padded, 0 - DEC) \o <<DECIMAL_POINT>> \o SliceFrom(padded, 0 - DEC)
      IN IF numeric THEN FloatOf(text) ELSE Return(PyStr(text))

stellar_units_units_to_stroops(amount, numeric) ==
    IF amount.t # "str" THEN Raise("TypeError")
    ELSE
      LET parts == Split(amount.v, DECIMAL_POINT)
      IN
        IF Len(parts) # 2 THEN Raise("ValueError")
        ELSE
          LET integer_part == parts[1]
              fractional_part == parts[2]
              striped == LStrip(fractional_part, Ord0)
              leading_zeros_amount == Len(fractional_part) - Len(striped)
              trailing_zeros_amount == DEC - leading_zeros_amount - Len(striped)
              text == IF integer_part # <<Ord0>>
                      THEN integer_part \o PadRight(fractional_part, DEC)
                      ELSE striped \o Repeat(Ord0, trailing_zeros_amount)
          IN IF numeric THEN IntOf(text) ELSE Return(PyStr(text))

(***************************************************************************)
(* The calls explored.  A state holds one call: the function, its          *)
(* arguments and how the call stands.  chain is the argument of the call   *)
(* whose result is this call's amount, for a composed call.                *)
(***************************************************************************)
Str(chars) == PyStr([i \in 1..Len(chars) |-> chars[i]])

\* the digits written in the explored strings
StrDigits == {Ord0, Ord0 + 1, Ord0 + 5}

DigitStrs(lo, hi) == UNION {[1..n -> StrDigits] : n \in lo..hi}

\* 0 .. MaxAmount, and the same in whole stellar units
IntAmounts ==
    {PyInt(Shift10(DigitsOf(n), k)) : n \in 0..MaxAmount, k \in {0, STELLAR_DECIMALS}}

\* digit strings, without a decimal point
WholeStrAmounts == {PyStr(i) : i \in DigitStrs(1, MaxIntLen)}

\* integer part "." fractional part
DottedStrAmounts ==
    {PyStr(i \o <<DECIMAL_POINT>> \o f) : i \in DigitStrs(1, MaxIntLen), f \in DigitStrs(0, MaxFracLen)}

\* True, False, None, 1.5
OtherAmounts == {PyBool(TRUE), PyBool(FALSE), None, PyFloat(<<3>>, 0 - 1)}

DivisibleAmounts == IntAmounts \cup WholeStrAmounts \cup DottedStrAmounts \cup OtherAmounts
IndivisibleAmounts == IntAmounts \cup WholeStrAmounts \cup OtherAmounts

NoChain == [t |-> "none", v |-> <<>>, e |-> 0]

CallOf(f, amount, decimals, price, numeric) ==
    [fn |-> f, amount |-> amount, decimals |-> decimals, price |-> price, numeric |-> numeric]

ConvCalls ==
    {CallOf("divisible_to_indivisible", a, d, None, FALSE) :
        a \in DivisibleAmounts, d \in 0..MaxDecimals}
    \cup {CallOf("indivisible_to_divisible", a, d, None, FALSE) :
        a \in IndivisibleAmounts, d \in 0..MaxDecimals}
    \cup {CallOf(f, a, Unbound, None, FALSE) :
        f \in {"units_to_stroops", "eth_to_wei", "btc_to_satoshi"}, a \in DivisibleAmounts}
    \cup {CallOf(f, a, Unbound, None, FALSE) :
        f \in {"stroops_to_units", "wei_to_eth", "satoshi_to_btc"}, a \in IndivisibleAmounts}
    \cup {CallOf("stellar_units.stroops_to_units", a, Unbound, None, n) :
        a \in IndivisibleAmounts, n \in BOOLEAN}
    \cup {CallOf("stellar_units.units_to_stroops", a, Unbound, None, n) :
        a \in (DivisibleAmounts \ {PyFloat(<<3>>, 0 - 1)}), n \in BOOLEAN}

\* amounts of indivisible units up to 10^MaxRun * MaxPrefix: a prefix
\* followed by a run of 0s or of 9s
RunLengths == {0, BTC_DECIMALS, MaxRun}

FiatInts ==
    {PyInt(Strip(DigitsOf(n) \o [i \in 1..k |-> r])) :
        n \in 0..MaxPrefix, r \in {0, 9}, k \in RunLengths}

FiatAmounts == FiatInts \cup OtherAmounts

\* "1.0" "0.5" "0.05" "0.3" "30000.00" "0.0" "5" "12"
Prices ==
    {Str(<<49, 46, 48>>), Str(<<48, 46, 53>>), Str(<<48, 46, 48, 53>>), Str(<<48, 46, 51>>),
     Str(<<51, 48, 48, 48, 48, 46, 48, 48>>), Str(<<48, 46, 48>>), Str(<<53>>), Str(<<49, 50>>)}

AssetDecimals == {STELLAR_DECIMALS, BTC_DECIMALS, ETH_DECIMALS}

FiatCalls ==
    {CallOf("currency_to_euro_cents", a, d, p, FALSE) :
        a \in FiatAmounts, d \in AssetDecimals, p \in Prices}
    \cup {CallOf(f, a, Unbound, p, FALSE) :
        f \in {"btc_to_euro_cents", "eth_to_euro_cents", "xlm_to_euro_cents",
               "bul_to_euro_cents", "euro_cents_to_xlm_stroops",
               "euro_cents_to_bul_stroops"},
        a \in FiatAmounts, p \in Prices}

DbIdle ==
    /\ db_pc = "idle"
    /\ connection = "unbound"
    /\ events = <<>>
    /\ tables = {}
    /\ rows = <<>>
    /\ error = "none"

ConvIdle ==
    /\ fn = "none"
    /\ arg_amount = None
    /\ arg_decimals = Unbound
    /\ arg_price = None
    /\ numeric_representation = FALSE
    /\ ret = Pending
    /\ price_decimals = Unbound
    /\ chain = NoChain

InitCall(calls) ==
    \E c \in calls :
        /\ fn = c.fn
        /\ arg_amount = c.amount
        /\ arg_decimals = c.decimals
        /\ arg_price = c.price
        /\ numeric_representation = c.numeric
        /\ ret = Pending
        /\ price_decimals = Unbound
        /\ chain = NoChain

ConvInit == InitCall(ConvCalls) /\ DbIdle

FiatInit == InitCall(FiatCalls) /\ DbIdle

\* the pending call of f runs and ends in result; pd is its price_decimals
Run(f, result, pd) ==
    /\ fn = f
    /\ ret = Pending
    /\ ret' = result
    /\ price_decimals' = pd
    /\ UNCHANGED <<fn, arg_amount, arg_decimals, arg_price, numeric_representation, chain>>
    /\ UNCHANGED db_vars

Call_divisible_to_indivisible ==
    Run("divisible_to_indivisible", divisible_to_indivisible(arg_amount, arg_decimals), Unbound)

Call_indivisible_to_divisible ==
    Run("indivisible_to_divisible", indivisible_to_divisible(arg_amount, arg_decimals), Unbound)

Call_stroops_to_units == Run("stroops_to_units", stroops_to_units(arg_amount), Unbound)

Call_units_to_stroops == Run("units_to_stroops", units_to_stroops(arg_amount), Unbound)

Call_wei_to_eth == Run("wei_to_eth", wei_to_eth(arg_amount), Unbound)

Call_eth_to_wei == Run("eth_to_wei", eth_to_wei(arg_amount), Unbound)

Call_satoshi_to_btc == Run("satoshi_to_btc", satoshi_to_btc(arg_amount), Unbound)

Call_btc_to_satoshi == Run("btc_to_satoshi", btc_to_satoshi(arg_amount), Unbound)

Call_stellar_units_stroops_to_units ==
    Run("stellar_units.stroops_to_units",
        stellar_units_stroops_to_units(arg_amount, numeric_representation), Unbound)

Call_stellar_units_units_to_stroops ==
    Run("stellar_units.units_to_stroops",
        stellar_units_units_to_stroops(arg_amount, numeric_representation), Unbound)

\* the caller passes the returned value on as the amount of the next call
Compose(f, g, decimals, numeric) ==
    /\ fn = f
    /\ ret.kind = "return"
    /\ ret.val.t = "str"
    /\ chain = NoChain
    /\ fn' = g
    /\ arg_amount' = ret.val
    /\ arg_decimals' = decimals
    /\ numeric_representation' = numeric
    /\ chain' = arg_amount
    /\ ret' = Pending
    /\ UNCHANGED <<arg_price, price_decimals>>
    /\ UNCHANGED db_vars

\* divisible_to_indivisible(indivisible_to_divisible(a, d), d)
RoundTrip ==
    Compose("indivisible_to_divisible", "divisible_to_indivisible", arg_decimals, FALSE)

\* stellar_units: units_to_stroops(stroops_to_units(a), numeric_representation=True)
StellarRoundTrip ==
    Compose("stellar_units.stroops_to_units", "stellar_units.units_to_stroops", Unbound, TRUE)

ConvNext ==
    \/ Call_divisible_to_indivisible
    \/ Call_indivisible_to_divisible
    \/ Call_stroops_to_units
    \/ Call_units_to_stroops
    \/ Call_wei_to_eth
    \/ Call_eth_to_wei
    \/ Call_satoshi_to_btc
    \/ Call_btc_to_satoshi
    \/ Call_stellar_units_stroops_to_units
    \/ Call_stellar_units_units_to_stroops
    \/ RoundTrip
    \/ StellarRoundTrip

ConvSpec == ConvInit /\ [][ConvNext]_vars

\* price_decimals as the function leaves it
LocalOf(r) == IF r.kind = "return" THEN r.val ELSE Unbound

Call_currency_to_euro_cents ==
    Run("currency_to_euro_cents",
        currency_to_euro_cents(arg_amount, arg_price, arg_decimals),
        LocalOf(FractionLen(arg_price)))

Call_btc_to_euro_cents ==
    Run("btc_to_euro_cents", btc_to_euro_cents(arg_amount, arg_price),
        LocalOf(FractionLen(arg_price)))

Call_eth_to_euro_cents ==
    Run("eth_to_euro_cents", eth_to_euro_cents(arg_amount, arg_price),
        LocalOf(FractionLen(arg_price)))

Call_xlm_to_euro_cents ==
    Run("xlm_to_euro_cents", xlm_to_euro_cents(arg_amount, arg_price),
        LocalOf(FractionLen(arg_price)))

Call_bul_to_euro_cents ==
    Run("bul_to_euro_cents", bul_to_euro_cents(arg_amount, arg_price),
        LocalOf(FractionLen(arg_price)))

Call_euro_cents_to_xlm_stroops ==
    Run("euro_cents_to_xlm_stroops", euro_cents_to_xlm_stroops(arg_amount, arg_price),
        GuardedFractionLen(arg_price))

Call_euro_cents_to_bul_stroops ==
    Run("euro_cents_to_bul_stroops", euro_cents_to_bul_stroops(arg_amount, arg_price),
        GuardedFractionLen(arg_price))

FiatNext ==
    \/ Call_currency_to_euro_cents
    \/ Call_btc_to_euro_cents
    \/ Call_eth_to_euro_cents
    \/ Call_xlm_to_euro_cents
    \/ Call_bul_to_euro_cents
    \/ Call_euro_cents_to_xlm_stroops
    \/ Call_euro_cents_to_bul_stroops

FiatSpec == FiatInit /\ [][FiatNext]_vars

(***************************************************************************)
(* util/db.py: sql_connection, a generator turned context manager, as      *)
(* clear_tables uses it.  A call into the connector returns ("ok") or      *)
(* raises a mysql.connector.Error or another exception; events lists the   *)
(* calls made, with how each ended.                                        *)
(***************************************************************************)
Outcomes == {"ok", "mysql.connector.Error", "Exception"}

TableNames == 1..NumTables

Event(call, outcome) == [call |-> call, outcome |-> outcome]

\* a finally clause that closes without looking for the connection
AlwaysClose(c) == TRUE

\* 'connection' in locals()
HasConnection(c) == c # "unbound"

\* finally: the connection is closed if it was bound.  An exception raised
\* by close() replaces the one being propagated.
Finally(conn, evs, err, closed) ==
    IF HasConnection(conn)
    THEN [events |-> Append(evs, Event("close", closed)),
          connection |-> "closed",
          error |-> IF closed = "ok" THEN err ELSE closed]
    ELSE [events |-> evs, connection |-> conn, error |-> err]

\* the rows of a result, in the order they are fetched
RECURSIVE RowsOf(_)
RowsOf(names) ==
    IF names = {} THEN <<>>
    ELSE <<CHOOSE n \in names : \A m \in names : n <= m>>
         \o RowsOf(names \ {CHOOSE n \in names : \A m \in names : n <= m})

DbInit ==
    /\ db_pc = "start"
    /\ connection = "unbound"
    /\ events = <<>>
    /\ tables \in SUBSET TableNames
    /\ rows = <<>>
    /\ error = "none"
    /\ ConvIdle

\* the context manager leaves with what Finally made of the exception err
Leave(conn, evs, err, closed) ==
    /\ events' = Finally(conn, evs, err, closed).events
    /\ connection' = Finally(conn, evs, err, closed).connection
    /\ error' = Finally(conn, evs, err, closed).error
    /\ db_pc' = "done"
    /\ UNCHANGED <<tables, rows>>
    /\ UNCHANGED conv_vars

\* with active_sql_connection() as sql: the generator runs up to its yield
Enter ==
    /\ db_pc = "start"
    /\ \E connected \in Outcomes, cursor \in Outcomes, closed \in Outcomes :
        IF connected # "ok"
        THEN Leave("unbound", <<Event("connect", connected)>>, connected, closed)
        ELSE IF cursor # "ok"
        THEN Leave("open", <<Event("connect", "ok"), Event("cursor", cursor)>>, cursor, closed)
        ELSE /\ events' = <<Event("connect", "ok"), Event("cursor", "ok")>>
             /\ connection' = "open"
             /\ db_pc' = "select"
             /\ UNCHANGED <<tables, rows, error>>
             /\ UNCHANGED conv_vars

\* what a call of the body leaves: the next line, or the exception on its
\* way to the context manager
BodyStep(call, outcome, next, fetched) ==
    /\ events' = Append(events, Event(call, outcome))
    /\ IF outcome = "ok"
       THEN /\ rows' = fetched
            /\ db_pc' = next
            /\ error' = error
       ELSE /\ rows' = rows
            /\ db_pc' = "exit"
            /\ error' = outcome
    /\ UNCHANGED <<connection, tables>>
    /\ UNCHANGED conv_vars

\* sql.execute("SELECT TABLE_NAME FROM information_schema.tables ...")
Select ==
    /\ db_pc = "select"
    /\ \E outcome \in Outcomes : BodyStep("select", outcome, "fetchall", rows)

\* sql.fetchall()
Fetch ==
    /\ db_pc = "fetchall"
    /\ \E outcome \in Outcomes :
        BodyStep("fetchall", outcome, IF tables = {} THEN "exit" ELSE "delete", RowsOf(tables))

\* sql.execute("DELETE from {}".format(table_name)) for the next row
Delete ==
    /\ db_pc = "delete"
    /\ rows # <<>>
    /\ \E outcome \in Outcomes :
        BodyStep("delete", outcome, IF Tail(rows) = <<>> THEN "exit" ELSE "delete", Tail(rows))

\* the with block is left: the generator resumes after its yield, or the
\* body's exception is raised at the yield
Exit ==
    /\ db_pc = "exit"
    /\ \E committed \in Outcomes, closed \in Outcomes :
        IF error = "none"
        THEN Leave(connection, Append(events, Event("commit", committed)),
                   IF committed = "ok" THEN "none" ELSE committed, closed)
        ELSE Leave(connection, events, error, closed)

DbNext ==
    \/ Enter
    \/ Select
    \/ Fetch
    \/ Delete
    \/ Exit

DbSpec == DbInit /\ [][DbNext]_vars

(***************************************************************************)
(* What the properties are stated with.                                    *)
(***************************************************************************)
Finished == ret # Pending

IsNumber(x) == x.t \in {"int", "str"}

\* the digits of a str of digits
DigitsOfStr(s) == [i \in 1..Len(s) |-> s[i] - Ord0]

\* the digits of a decimal str without its decimal point, as an int
Unscaled(s) ==
    Strip(DigitsOfStr(SelectSeq(s, LAMBDA c : c # DECIMAL_POINT)))

\* the number of digits after the decimal point, 0 without one
FractionDigits(s) ==
    IF Contains(s, DECIMAL_POINT)
    THEN Len(s) - (CHOOSE i \in 1..Len(s) : s[i] = DECIMAL_POINT)
    ELSE 0

\* floor(a / 10^n * 10^d) for an int a
FloorScaled(a, n, d) == IF d >= n THEN Shift10(a, d - n) ELSE SplitPow10(a, n - d).q

\* |a - b|
AbsDiff(a, b) == IF BigLe(a, b) THEN BigSub(b, a) ELSE BigSub(a, b)

\* whether r is an integer nearest to n / 10^s
IsNearest(r, n, s) ==
    BigLe(BigAdd(AbsDiff(Shift10(r, s), n), AbsDiff(Shift10(r, s), n)), Pow10(s))

\* whether q = floor(a / b)
IsFloorOf(q, a, b) == BigLe(BigMul(b, q), a) /\ BigLt(a, BigMul(b, BigAdd(q, One)))

CurrencyFns ==
    {"currency_to_euro_cents", "btc_to_euro_cents", "eth_to_euro_cents",
     "xlm_to_euro_cents", "bul_to_euro_cents"}

EuroFns == {"euro_cents_to_xlm_stroops", "euro_cents_to_bul_stroops"}

Calls(call) == Cardinality({i \in 1..Len(events) : events[i].call = call})

Opened == \E i \in 1..Len(events) : events[i] = Event("connect", "ok")

BodyCalls == {"select", "fetchall", "delete"}

BodyRaised ==
    \E i \in 1..Len(events) : events[i].call \in BodyCalls /\ events[i].outcome # "ok"

(***************************************************************************)
(* Properties.                                                             *)
(***************************************************************************)
\* C1: for every non-negative integer a and every decimals d >= 0 (d = 0
\* included), divisible_to_indivisible(indivisible_to_divisible(a, d), d)
\* returns a.
C1_RoundTrip ==
    (fn = "divisible_to_indivisible" /\ chain.t = "int" /\ Finished)
        => ret = Return(chain)

\* C2: for a non-negative decimal string or integer amount and decimals >= 0,
\* divisible_to_indivisible returns floor(amount * 10^decimals): the fraction
\* is truncated, never rounded, and the integer part "0" gives the same value.
C2_Floor ==
    (fn = "divisible_to_indivisible" /\ IsNumber(arg_amount) /\ Finished)
        => ret = Return(PyInt(FloorScaled(Unscaled(StrOf(arg_amount)),
                                          FractionDigits(StrOf(arg_amount)),
                                          arg_decimals)))

\* "0.15" at one decimal is 1: the 5 is cut off, not rounded up
C2_Witness ==
    /\ fn = "divisible_to_indivisible"
    /\ arg_amount = Str(<<48, 46, 49, 53>>)
    /\ arg_decimals = 1
    /\ ret = Return(PyInt(<<1>>))

\* C3: for a non-negative integer or digit string amount and decimals >= 0,
\* indivisible_to_divisible returns a string with exactly one decimal point
\* that denotes amount / 10^decimals, the fraction without trailing zeros and
\* "0" when it would be empty.
C3_Denotes ==
    (fn = "indivisible_to_divisible" /\ IsNumber(arg_amount) /\ Finished)
        => /\ ret.kind = "return"
           /\ ret.val.t = "str"
           /\ Len(Split(ret.val.v, DECIMAL_POINT)) = 2
           /\ Shift10(Unscaled(ret.val.v), arg_decimals)
                  = Shift10(Unscaled(StrOf(arg_amount)), FractionDigits(ret.val.v))
           /\ FractionDigits(ret.val.v) >= 1
           /\ (FractionDigits(ret.val.v) > 1 => ret.val.v[Len(ret.val.v)] # Ord0)

\* C4: an amount that is a bool, or neither an int nor a str, makes every
\* conversion function raise a type error; nothing is returned.
C4_TypeError ==
    (fn # "none" /\ Finished /\ ~IsNumber(arg_amount)) => ret = Raise("TypeError")

\* C5: for a non-negative integer amount, a price with a decimal point and
\* decimals in {7, 8, 18}, currency_to_euro_cents returns the integer nearest
\* to (integer price) * amount / 10^(price_decimals + decimals - 2).
C5_Nearest ==
    (fn = "currency_to_euro_cents" /\ arg_amount.t = "int"
     /\ Contains(arg_price.v, DECIMAL_POINT) /\ Finished)
        => /\ ret.kind = "return"
           /\ ret.val.t = "int"
           /\ IsNearest(ret.val.v, BigMul(Unscaled(arg_price.v), arg_amount.v),
                        FractionDigits(arg_price.v) + arg_decimals - 2)

\* C6: for a non-negative euro cent amount and a positive price with p
\* fractional digits (p = 0 without a decimal point), euro_cents_to_xlm_stroops
\* returns floor(cents * 10^(7+p) / (integer price * 100)) whatever the
\* remainder, and euro_cents_to_bul_stroops returns the same.
C6_FloorDiv ==
    (fn \in EuroFns /\ arg_amount.t = "int" /\ Unscaled(arg_price.v) # Zero /\ Finished)
        => /\ ret.kind = "return"
           /\ ret.val.t = "int"
           /\ IsFloorOf(ret.val.v,
                        Shift10(arg_amount.v, 7 + FractionDigits(arg_price.v)),
                        Shift10(Unscaled(arg_price.v), 2))
           /\ ret = euro_cents_to_xlm_stroops(arg_amount, arg_price)
           /\ ret = euro_cents_to_bul_stroops(arg_amount, arg_price)

\* 1 cent at "0.3": 10^8 / 300 leaves a remainder
C6_Witness ==
    /\ fn = "euro_cents_to_xlm_stroops"
    /\ arg_amount = PyInt(One)
    /\ arg_price = Str(<<48, 46, 51>>)
    /\ ret = Return(PyInt(<<3, 3, 3, 3, 3, 3>>))

\* C7: with a price that has no decimal point, currency_to_euro_cents and
\* its btc/eth/xlm/bul wrappers raise an index error and return nothing, while
\* euro_cents_to_xlm_stroops and euro_cents_to_bul_stroops do not fail on it
\* and use price_decimals = 0.
C7_Guard ==
    (fn \in CurrencyFns \cup EuroFns /\ Finished /\ ~Contains(arg_price.v, DECIMAL_POINT))
        => /\ fn \in CurrencyFns => ret = Raise("IndexError")
           /\ fn \in EuroFns =>
                /\ price_decimals = 0
                /\ ret.exc # "IndexError"
                /\ arg_amount.t = "int" => ret.kind = "return"

\* currency_to_euro_cents(1, "5", 8)
C7_Witness ==
    /\ fn = "currency_to_euro_cents"
    /\ arg_amount = PyInt(One)
    /\ arg_price = Str(<<53>>)
    /\ ret = Raise("IndexError")

\* the call of C8: 1 BTC in satoshi at "30000.00"
C8_Call ==
    /\ \/ fn = "currency_to_euro_cents" /\ arg_decimals = BTC_DECIMALS
       \/ fn = "btc_to_euro_cents"
    /\ arg_amount = PyInt(Shift10(One, BTC_DECIMALS))
    /\ arg_price = Str(<<51, 48, 48, 48, 48, 46, 48, 48>>)
    /\ Finished

\* C8, as stated: currency_to_euro_cents(100000000, "30000.00", 8), and
\* btc_to_euro_cents(100000000, "30000.00"), return an integer within one of
\* 3000000000.
C8_Original ==
    C8_Call => /\ ret.kind = "return"
               /\ ret.val.t = "int"
               /\ BigLe(AbsDiff(ret.val.v, <<3, 0, 0, 0, 0, 0, 0, 0, 0, 0>>), One)

\* C8, amended: the call returns 3000000, the cents of 30000 euros.
C8_Amended == C8_Call => ret = Return(PyInt(<<3, 0, 0, 0, 0, 0, 0>>))

C8_Witness == C8_Call /\ fn = "btc_to_euro_cents" /\ ret = Return(PyInt(<<3, 0, 0, 0, 0, 0, 0>>))

\* C9: in stellar_units, units_to_stroops(stroops_to_units(a),
\* numeric_representation=True) returns a for every non-negative integer a,
\* 0 included, and stroops_to_units(a) is a string with one decimal point and
\* seven fractional digits.
C9_RoundTrip ==
    /\ (fn = "stellar_units.units_to_stroops" /\ chain.t = "int"
        /\ numeric_representation /\ Finished)
           => ret = Return(chain)
    /\ (fn = "stellar_units.stroops_to_units" /\ arg_amount.t = "int"
        /\ ~numeric_representation /\ Finished)
           => /\ ret.kind = "return"
              /\ ret.val.t = "str"
              /\ Len(Split(ret.val.v, DECIMAL_POINT)) = 2
              /\ FractionDigits(ret.val.v) = DEC

\* C10: a connection that was opened is closed exactly once by the time the
\* context is left, whichever call raised; commit is called only after the
\* body completed, once, and never after the body raised; when connect fails
\* there is neither a commit nor a close and the error reaches the caller.
C10_CloseOnce ==
    /\ Calls("close") <= 1
    /\ Calls("commit") <= 1
    /\ Calls("close") = 1 => events[Len(events)].call = "close"
    /\ db_pc = "done" =>
        /\ Opened => Calls("close") = 1
        /\ ~Opened => Calls("close") = 0 /\ Calls("commit") = 0 /\ error # "none"
    /\ Calls("commit") = 1 =>
        /\ ~BodyRaised
        /\ Calls("select") = 1
        /\ Calls("fetchall") = 1
        /\ Calls("delete") = Cardinality(tables)
        /\ \A i \in 1..Len(events) :
               events[i].call \in BodyCalls =>
                   \E j \in (i + 1)..Len(events) : events[j].call = "commit"

\* the second DELETE raised: closed, and not committed
C10_Witness ==
    /\ db_pc = "done"
    /\ Opened
    /\ BodyRaised
    /\ Calls("delete") = 2
    /\ Calls("commit") = 0
    /\ Calls("close") = 1

=============================================================================
